---- MODULE Spec2Model ----
(***************************************************************************)
(* The responder side of the secure-channel handshake:                     *)
(* ResponderStateMachine (responder_state_machine.rs) driving the          *)
(* Handshake engine.  The engine (handshake_state.rs) is not part of the   *)
(* sources at hand; its operations are modelled from the specification     *)
(* (sections 3 and 4.2) and are named Handshake_*.                         *)
(***************************************************************************)
EXTENDS Naturals, Sequences, FiniteSets, TLC

\* ------------------------------------------------------------------ bounds
\* Number of on_event calls delivered to one state machine instance.
MaxEvents == 3

\* ------------------------------------------------------------- value sets
\* Status of the handshake state (use Status::*); Done is the terminal one.
Status == {"Initial", "WaitingForMessage1", "WaitingForMessage3", "Done"}

\* Option<T>: None is the empty set, Some(x) the singleton.
None == {}
Some(x) == {x}

\* Byte strings a transport can deliver in ReceivedMessage.  "m1" is a
\* well-formed message 1; "m3_alice" / "m3_bob" are well-formed messages 3
\* carrying the identity and credentials of alice / bob; "junk" is malformed.
Bytes == {"m1", "m3_alice", "m3_bob", "junk"}

\* Trust policies a responder can be constructed with (allow-lists).
TrustPolicies == {{"alice"}, {"bob"}}

\* enum Event { Initialize, ReceivedMessage(Vec<u8>) }
Initialize == [type |-> "Initialize", message |-> "-"]
ReceivedMessage(m) == [type |-> "ReceivedMessage", message |-> m]

\* enum Action { NoAction, SendMessage(Vec<u8>) } and the Err side of Result.
NoAction == [kind |-> "NoAction", message |-> "-", origin |-> "-"]
SendMessage(m) == [kind |-> "SendMessage", message |-> m, origin |-> "-"]
Err(kind, origin) == [kind |-> kind, message |-> "-", origin |-> origin]
IsErr(r) == r.kind \notin {"NoAction", "SendMessage"}

\* The operations of the engine, and the fault injected into one call of
\* on_event: the named operation fails (a vault error) even on good input.
EngineOps == {"initialize", "decode_message1", "encode_message2",
              "decode_message3", "verify_identity", "set_final_state"}
Faults == EngineOps \cup {"none"}

\* One entry of the log of engine operations: the operation, whether it
\* succeeded, and the identity it returned or was given ("-" if none).
Call(op, ok, id) == [op |-> op, ok |-> ok, id |-> id]

\* What an engine operation hands back: success, the engine state after it,
\* the value returned (ret), the error returned, and its log entry.
Outcome(ok, hs, ret, err, call) ==
    [ok |-> ok, hs |-> hs, ret |-> ret, err |-> err, call |-> call]

\* ------------------------------------------- the engine (from the spec)
\* IdentityAndCredentials carried by a well-formed message 3.
PayloadOf(message) ==
    [identity |-> IF message = "m3_alice" THEN "alice" ELSE "bob"]

\* Handshake::new: a fresh handshake state, status Initial, no final state.
Handshake_new == [status |-> "Initial", final_state |-> None]

\* initialize(): sets up the symmetric state; leaves the status alone.
Handshake_initialize(hs, fault) ==
    IF fault = "initialize"
    THEN Outcome(FALSE, hs, "-", Err("Other", "initialize"),
                 Call("initialize", FALSE, "-"))
    ELSE Outcome(TRUE, hs, "-", NoAction, Call("initialize", TRUE, "-"))

\* decode_message1(bytes): fails on bytes that are no message 1.
Handshake_decode_message1(hs, message, fault) ==
    IF message # "m1"
    THEN Outcome(FALSE, hs, "-", Err("Invalid", "decode_message1"),
                 Call("decode_message1", FALSE, "-"))
    ELSE IF fault = "decode_message1"
    THEN Outcome(FALSE, hs, "-", Err("Other", "decode_message1"),
                 Call("decode_message1", FALSE, "-"))
    ELSE Outcome(TRUE, hs, "-", NoAction, Call("decode_message1", TRUE, "-"))

\* encode_message2(): returns the bytes of message 2.
Handshake_encode_message2(hs, fault) ==
    IF fault = "encode_message2"
    THEN Outcome(FALSE, hs, "-", Err("Other", "encode_message2"),
                 Call("encode_message2", FALSE, "-"))
    ELSE Outcome(TRUE, hs, "m2", NoAction, Call("encode_message2", TRUE, "-"))

\* decode_message3(bytes): fails on bytes that are no message 3, otherwise
\* returns the IdentityAndCredentials the message carries.
Handshake_decode_message3(hs, message, fault) ==
    IF message \notin {"m3_alice", "m3_bob"}
    THEN Outcome(FALSE, hs, PayloadOf(message),
                 Err("Invalid", "decode_message3"),
                 Call("decode_message3", FALSE, "-"))
    ELSE IF fault = "decode_message3"
    THEN Outcome(FALSE, hs, PayloadOf(message),
                 Err("Other", "decode_message3"),
                 Call("decode_message3", FALSE, "-"))
    ELSE Outcome(TRUE, hs, PayloadOf(message), NoAction,
                 Call("decode_message3", TRUE, PayloadOf(message).identity))

\* verify_identity(payload): change history and credentials, then the trust
\* policy; returns the authenticated identity or the first error.
Handshake_verify_identity(hs, payload, policy, fault) ==
    IF fault = "verify_identity"
    THEN Outcome(FALSE, hs, "-", Err("Authentication", "verify_identity"),
                 Call("verify_identity", FALSE, "-"))
    ELSE IF payload.identity \notin policy
    THEN Outcome(FALSE, hs, "-", Err("Authorization", "verify_identity"),
                 Call("verify_identity", FALSE, "-"))
    ELSE Outcome(TRUE, hs, payload.identity, NoAction,
                 Call("verify_identity", TRUE, payload.identity))

\* set_final_state(identity, role): derives the keys, packages the terminal
\* artifact and makes the handshake state terminal.
Handshake_set_final_state(hs, their_identity, role, fault) ==
    IF fault = "set_final_state"
    THEN Outcome(FALSE, hs, "-", Err("Other", "set_final_state"),
                 Call("set_final_state", FALSE, their_identity))
    ELSE Outcome(TRUE,
                 [status |-> "Done",
                  final_state |->
                      Some([their_identity |-> their_identity, role |-> role])],
                 "-", NoAction, Call("set_final_state", TRUE, their_identity))

\* get_final_state(): the terminal artifact, if there is one.
Handshake_get_final_state(hs) == hs.final_state

\* ------------------------------------------ ResponderStateMachine (code)
\* delegate! { to self.handshake { ... } }
initialize_handshake(hs, fault) == Handshake_initialize(hs, fault)
decode_message1(hs, message, fault) ==
    Handshake_decode_message1(hs, message, fault)
encode_message2(hs, fault) == Handshake_encode_message2(hs, fault)
decode_message3(hs, message, fault) ==
    Handshake_decode_message3(hs, message, fault)
verify_identity(hs, payload, policy, fault) ==
    Handshake_verify_identity(hs, payload, policy, fault)
set_final_state(hs, their_identity, role, fault) ==
    Handshake_set_final_state(hs, their_identity, role, fault)
get_final_state(hs) == Handshake_get_final_state(hs)

\* What one call of on_event leaves behind: the handshake state stored in
\* the machine, the Result returned, and the engine operations it invoked.
Returned(hs, result, calls) == [hs |-> hs, result |-> result, calls |-> calls]

\* Faulty variant of arm_initialize: the Result of initialize_handshake is
\* dropped (`let _ = ...`) and NoAction is returned whatever it was.
arm_initialize_swallow(hs, state, fault) ==
    LET r == initialize_handshake(hs, fault)
    IN  Returned(r.hs, NoAction, <<r.call>>)

\* (Initial, Initialize) => { ... }.  `state` is the clone taken on entry;
\* the status assigned to it is not stored back into self.handshake.
arm_initialize(hs, state, fault) ==
    LET r == initialize_handshake(hs, fault)
        state1 == [state EXCEPT !.status = "WaitingForMessage1"]
    IN  IF ~r.ok THEN Returned(r.hs, r.err, <<r.call>>)
        ELSE Returned(r.hs, NoAction, <<r.call>>)

\* (WaitingForMessage1, ReceivedMessage(message)) => { ... }
arm_message1(hs, state, message, fault) ==
    LET d == decode_message1(hs, message, fault)
        e == encode_message2(d.hs, fault)
        state1 == [state EXCEPT !.status = "WaitingForMessage3"]
    IN  IF ~d.ok THEN Returned(d.hs, d.err, <<d.call>>)
        ELSE IF ~e.ok THEN Returned(e.hs, e.err, <<d.call, e.call>>)
        ELSE Returned(e.hs, SendMessage(e.ret), <<d.call, e.call>>)

\* Faulty variant of arm_message3: the identity decoded from message 3 is
\* handed to set_final_state without verify_identity being run.
arm_message3_unverified(hs, message, policy, fault) ==
    LET d == decode_message3(hs, message, fault)
        s == set_final_state(d.hs, d.ret.identity, "Responder", fault)
    IN  IF ~d.ok THEN Returned(d.hs, d.err, <<d.call>>)
        ELSE IF ~s.ok THEN Returned(s.hs, s.err, <<d.call, s.call>>)
        ELSE Returned(s.hs, NoAction, <<d.call, s.call>>)

\* Faulty variant of arm_message3: set_final_state is invoked right after the
\* decode, and verify_identity only after it.
arm_message3_final_first(hs, message, policy, fault) ==
    LET d == decode_message3(hs, message, fault)
        s == set_final_state(d.hs, d.ret.identity, "Responder", fault)
        v == verify_identity(s.hs, d.ret, policy, fault)
    IN  IF ~d.ok THEN Returned(d.hs, d.err, <<d.call>>)
        ELSE IF ~s.ok THEN Returned(s.hs, s.err, <<d.call, s.call>>)
        ELSE IF ~v.ok THEN Returned(v.hs, v.err, <<d.call, s.call, v.call>>)
        ELSE Returned(v.hs, NoAction, <<d.call, s.call, v.call>>)

\* (WaitingForMessage3, ReceivedMessage(message)) => { ... }
arm_message3(hs, message, policy, fault) ==
    LET d == decode_message3(hs, message, fault)
        v == verify_identity(d.hs, d.ret, policy, fault)
        s == set_final_state(v.hs, v.ret, "Responder", fault)
    IN  IF ~d.ok THEN Returned(d.hs, d.err, <<d.call>>)
        ELSE IF ~v.ok THEN Returned(v.hs, v.err, <<d.call, v.call>>)
        ELSE IF ~s.ok THEN Returned(s.hs, s.err, <<d.call, v.call, s.call>>)
        ELSE Returned(s.hs, NoAction, <<d.call, v.call, s.call>>)

\* Faulty variant of arm_unexpected: an unexpected pair is a silent no-op.
arm_unexpected_noop(hs) == Returned(hs, NoAction, <<>>)

\* (s, e) => Err(Error::new(Origin::Channel, Kind::Invalid, ...))
arm_unexpected(hs) == Returned(hs, Err("Invalid", "Channel"), <<>>)

\* Faulty variant of on_event: the message-3 arm matches ReceivedMessage in
\* any status the message-1 arm left over, (_, ReceivedMessage(message)).
on_event_any_status(hs, event, policy, fault) ==
    LET state == hs
    IN  IF state.status = "Initial" /\ event.type = "Initialize"
        THEN arm_initialize(hs, state, fault)
        ELSE IF state.status = "WaitingForMessage1"
                /\ event.type = "ReceivedMessage"
        THEN arm_message1(hs, state, event.message, fault)
        ELSE IF event.type = "ReceivedMessage"
        THEN arm_message3(hs, event.message, policy, fault)
        ELSE arm_unexpected(hs)

\* on_event: clone the state, then match (state.status, event).
on_event(hs, event, policy, fault) ==
    LET state == hs
    IN  IF state.status = "Initial" /\ event.type = "Initialize"
        THEN arm_initialize(hs, state, fault)
        ELSE IF state.status = "WaitingForMessage1"
                /\ event.type = "ReceivedMessage"
        THEN arm_message1(hs, state, event.message, fault)
        ELSE IF state.status = "WaitingForMessage3"
                /\ event.type = "ReceivedMessage"
        THEN arm_message3(hs, event.message, policy, fault)
        ELSE arm_unexpected(hs)

\* ------------------------------------------------------------------ state
\* -------------------------------------- identities repository: operations
\* IdentitiesSqlxDatabase keeps identities in the SQL table `identity`, one
\* statement per step.  A table is the sequence of its rows in insertion
\* order; a NULL column is None.

\* The concurrent calls that may be between two statements at one time.
MaxInFlight == 2

Identifiers == {"a", "b"}
Names == {"n1", "n2"}

\* The identities handed to the repository: for each identifier its first
\* change history and the same history extended by one rotation.
IdentitySet ==
    { [identifier |-> "a", change_history |-> <<"a1">>],
      [identifier |-> "a", change_history |-> <<"a1", "a2">>],
      [identifier |-> "b", change_history |-> <<"b1">>],
      [identifier |-> "b", change_history |-> <<"b1", "b2">>] }

\* Result<T>: Ok(value), or the Error that into_core makes of a sqlx error
\* (Origin::Api, Kind::Internal).
Ok(value) == [ok |-> TRUE, value |-> value]
Internal == [ok |-> FALSE, value |-> None]

\* Identifier's Display form, "I" followed by the hex digest, and the parse
\* of that form.
Identifier_to_string(identifier) == "I" \o identifier
Identifier_from_str(text) ==
    IF \E i \in Identifiers : Identifier_to_string(i) = text
    THEN Ok(CHOOSE i \in Identifiers : Identifier_to_string(i) = text)
    ELSE Internal

\* ChangeHistory::export writes the array header (the number of changes) and
\* then the changes; ChangeHistory::import reads such an array back and
\* fails on any other bytes.
ChangeHistory_export(change_history) ==
    Ok(<<Len(change_history)>> \o change_history)
ChangeHistory_import(bytes) ==
    IF bytes # <<>> /\ bytes[1] = Len(bytes) - 1
    THEN Ok(Tail(bytes))
    ELSE Internal

\* impl ToSqlxType for Identifier / for ChangeHistory
Identifier_to_sql(identifier) == Identifier_to_string(identifier)
ChangeHistory_to_sql(change_history) ==
    ChangeHistory_export(change_history).value

\* The store is keyed by identifier: an INSERT of an identifier the table
\* already holds violates the key and fails.
KeyViolation(table, row) ==
    \E k \in 1..Len(table) : table[k].identifier = row.identifier

\* What a writer leaves: the table and the Result it returns.
Wrote(table, result) == [table |-> table, result |-> result]

\* Faulty variant of store_identity: the row is written with the change
\* history bytes of an empty history instead of the identity's own.
store_identity_empty_history(table, identity) ==
    LET row == [identifier |-> Identifier_to_sql(identity.identifier),
                change_history |-> ChangeHistory_to_sql(<<>>),
                name |-> None,
                is_default |-> FALSE]
    IN  IF KeyViolation(table, row)
        THEN Wrote(table, Internal)
        ELSE Wrote(Append(table, row), Ok(None))

\* INSERT INTO identity VALUES (?, ?, NULL, ?)
store_identity(table, identity) ==
    LET row == [identifier |-> Identifier_to_sql(identity.identifier),
                change_history |->
                    ChangeHistory_to_sql(identity.change_history),
                name |-> None,
                is_default |-> FALSE]
    IN  IF KeyViolation(table, row)
        THEN Wrote(table, Internal)
        ELSE Wrote(Append(table, row), Ok(None))

\* UPDATE identity SET name = ? WHERE identifier = ?
name_identity(table, identifier, name) ==
    Wrote([k \in 1..Len(table) |->
              IF table[k].identifier = Identifier_to_sql(identifier)
              THEN [table[k] EXCEPT !.name = Some(name)]
              ELSE table[k]],
          Ok(None))

\* set_as_default, first statement:
\* UPDATE identity SET is_default = true WHERE identifier = ?
set_as_default_query1(table, identifier) ==
    Wrote([k \in 1..Len(table) |->
              IF table[k].identifier = Identifier_to_sql(identifier)
              THEN [table[k] EXCEPT !.is_default = TRUE]
              ELSE table[k]],
          Ok(None))

\* set_as_default, second statement:
\* UPDATE identity SET is_default = false WHERE identifier <> ?
set_as_default_query2(table, identifier) ==
    Wrote([k \in 1..Len(table) |->
              IF table[k].identifier # Identifier_to_sql(identifier)
              THEN [table[k] EXCEPT !.is_default = FALSE]
              ELSE table[k]],
          Ok(None))

\* UPDATE identity SET is_default = true WHERE name = ?
set_as_default_by_name(table, name) ==
    Wrote([k \in 1..Len(table) |->
              IF table[k].name = Some(name)
              THEN [table[k] EXCEPT !.is_default = TRUE]
              ELSE table[k]],
          Ok(None))

\* UPDATE identity SET change_history = ? WHERE identifier = ?
update_identity(table, identity) ==
    Wrote([k \in 1..Len(table) |->
              IF table[k].identifier = Identifier_to_sql(identity.identifier)
              THEN [table[k] EXCEPT !.change_history =
                      ChangeHistory_to_sql(identity.change_history)]
              ELSE table[k]],
          Ok(None))

\* delete_identity, first statement: DELETE FROM identity where identifier=?
delete_identity_query1(table, identifier) ==
    Wrote(SelectSeq(table,
                    LAMBDA r : r.identifier # Identifier_to_sql(identifier)),
          Ok(None))

\* delete_identity, second statement:
\* DELETE FROM identity_attributes where identifier=?
delete_identity_query2(attributes, identifier) ==
    Wrote(SelectSeq(attributes,
                    LAMBDA r : r.identifier # Identifier_to_sql(identifier)),
          Ok(None))

\* fetch_optional: the first row of the selection, if there is one.
fetch_optional(rows) == IF rows = <<>> THEN None ELSE Some(rows[1])

\* IdentityRow::identifier and IdentityRow::change_history
IdentityRow_identifier(row) == Identifier_from_str(row.identifier)
IdentityRow_change_history(row) == ChangeHistory_import(row.change_history)

\* Option<Result<T>>::transpose: None is Ok(None), Some(Ok(v)) is
\* Ok(Some(v)) and Some(Err(e)) is Err(e).
transpose(option) ==
    IF option = None
    THEN Ok(None)
    ELSE LET r == CHOOSE x \in option : TRUE
         IN  IF r.ok THEN Ok(Some(r.value)) ELSE r

\* SELECT * FROM identity WHERE identifier=$1
get_change_history_optional(table, identifier) ==
    LET row == fetch_optional(SelectSeq(table,
                   LAMBDA r : r.identifier = Identifier_to_sql(identifier)))
    IN  transpose({IdentityRow_change_history(r) : r \in row})

\* SELECT * FROM identity WHERE name=$1
get_identifier_by_name(table, name) ==
    LET row == fetch_optional(SelectSeq(table,
                   LAMBDA r : r.name = Some(name)))
    IN  transpose({IdentityRow_identifier(r) : r \in row})

\* SELECT * FROM identity WHERE is_default=?  (bound to true)
get_default_identifier(table) ==
    LET row == fetch_optional(SelectSeq(table, LAMBDA r : r.is_default))
    IN  transpose({IdentityRow_identifier(r) : r \in row})

\* IdentityRow::named_identity; a NULL name is read into the String field as
\* the empty string.
IdentityRow_named_identity(row) ==
    LET identifier == IdentityRow_identifier(row)
        change_history == IdentityRow_change_history(row)
    IN  IF ~identifier.ok THEN identifier
        ELSE IF ~change_history.ok THEN change_history
        ELSE Ok([identifier |-> identifier.value,
                 change_history |-> change_history.value,
                 name |-> IF row.name = None
                          THEN ""
                          ELSE CHOOSE n \in row.name : TRUE,
                 is_default |-> row.is_default])

\* SELECT * FROM identity WHERE name=$1, executed with nothing bound to $1:
\* the parameter is NULL, and `name = NULL` is true of no row.
get_named_identities(table) ==
    LET parameter == None
        rows == SelectSeq(table,
                    LAMBDA r : /\ r.name # None
                               /\ parameter # None
                               /\ r.name = parameter)
    IN  IF \E k \in 1..Len(rows) : ~IdentityRow_named_identity(rows[k]).ok
        THEN Internal
        ELSE Ok([k \in 1..Len(rows) |->
                   IdentityRow_named_identity(rows[k]).value])

\* The call that returned in the last step: its name, its arguments, its
\* Result, and whether the identifier it names was stored throughout it.
Completed(op, identifier, name, change_history, ok, on_stored) ==
    [op |-> op, identifier |-> identifier, name |-> name,
     change_history |-> change_history, ok |-> ok, on_stored |-> on_stored]

\* No call returned in the last step.
NoCall == Completed("-", "-", "-", <<>>, TRUE, FALSE)

\* A call that has executed its first statement and not yet its second.
InFlight(op, identifier, on_stored) ==
    [op |-> op, identifier |-> identifier, on_stored |-> on_stored]

\* ---------------------------------- identity attributes: operations
\* The attribute-writer calls that may be started in one run.
MaxAttributeCalls == 3

\* The bits of a timestamp: TimestampInSeconds is a u64 that is bound as an
\* i64 and read back with `as u64`; the width is scaled down.
TimestampBits == 4

\* Attribute names, in the order of a BTreeMap, and attribute values.
KeyOrder == <<"k1", "k2">>
AttributeNames == {KeyOrder[i] : i \in 1..Len(KeyOrder)}
AttributeValues == {"v1", "v2"}

\* BTreeMap::insert on a map held as its set of <<name, value>> pairs.
insert(attributes, attribute_name, attribute_value) ==
    {p \in attributes : p[1] # attribute_name}
        \cup {<<attribute_name, attribute_value>>}

\* AttributesEntry::new
AttributesEntry_new(attrs, added, expires, attested_by) ==
    [attrs |-> attrs, added |-> added, expires |-> expires,
     attested_by |-> attested_by]

\* The entries handed to put_attributes: one attested by "a" that expires,
\* and one with the latest timestamp, no expiry and no attester.
EntrySet ==
    { AttributesEntry_new({<<"k1", "v1">>, <<"k2", "v2">>}, 1, Some(2),
                          Some("a")),
      AttributesEntry_new({<<"k1", "v2">>}, 2 ^ TimestampBits - 1, None,
                          None) }

\* The values now() returns.
Clock == {3, 4}

\* minicbor::to_vec of the attribute map: the map header (the number of
\* pairs) and then the pairs in key order.
minicbor_to_vec(attrs) ==
    LET keys == SelectSeq(KeyOrder, LAMBDA k : \E p \in attrs : p[1] = k)
    IN  <<Len(keys)>> \o
        [i \in 1..Len(keys) |-> CHOOSE p \in attrs : p[1] = keys[i]]

\* minicbor::decode of such bytes, an error on any other bytes.
minicbor_decode(bytes) ==
    IF bytes # <<>> /\ bytes[1] = Len(bytes) - 1
    THEN Ok({bytes[i] : i \in 2..Len(bytes)})
    ELSE Internal

\* impl ToSqlxType for u64: `*self as i64`, and the `as u64` that reads the
\* column back.
u64_to_sql(v) ==
    IF v >= 2 ^ (TimestampBits - 1) THEN v - 2 ^ TimestampBits ELSE v
i64_as_u64(v) == IF v < 0 THEN v + 2 ^ TimestampBits ELSE v

\* IdentityAttributesRow::identifier and IdentityAttributesRow::attributes
IdentityAttributesRow_identifier(row) == Identifier_from_str(row.identifier)
IdentityAttributesRow_attributes(row) ==
    LET attributes == minicbor_decode(row.attributes)
        attested_by == transpose({Identifier_from_str(v) :
                                     v \in row.attested_by})
    IN  IF ~attributes.ok THEN attributes
        ELSE IF ~attested_by.ok THEN attested_by
        ELSE Ok(AttributesEntry_new(attributes.value,
                                    i64_as_u64(row.added),
                                    {i64_as_u64(v) : v \in row.expires},
                                    attested_by.value))

\* SELECT * FROM identity_attributes WHERE identifier=$1
get_attributes(table, identity) ==
    LET row == fetch_optional(SelectSeq(table,
                   LAMBDA r : r.identifier = Identifier_to_sql(identity)))
    IN  transpose({IdentityAttributesRow_attributes(r) : r \in row})

\* SELECT * FROM identity_attributes, each row made an (identifier, entry)
\* pair; the first row that fails to decode fails the call.
list(table) ==
    IF \E k \in 1..Len(table) :
          \/ ~IdentityAttributesRow_identifier(table[k]).ok
          \/ ~IdentityAttributesRow_attributes(table[k]).ok
    THEN Internal
    ELSE Ok([k \in 1..Len(table) |->
               <<IdentityAttributesRow_identifier(table[k]).value,
                 IdentityAttributesRow_attributes(table[k]).value>>])

\* Faulty variant of put_attributes: the new row is inserted and the row that
\* holds the key is left in place.
put_attributes_keeps_old(table, sender, entry) ==
    LET row == [identifier |-> Identifier_to_sql(sender),
                attributes |-> minicbor_to_vec(entry.attrs),
                added |-> u64_to_sql(entry.added),
                expires |-> {u64_to_sql(e) : e \in entry.expires},
                attested_by |->
                    {Identifier_to_sql(e) : e \in entry.attested_by}]
    IN  Wrote(Append(table, row), Ok(None))

\* INSERT OR REPLACE INTO identity_attributes VALUES (?, ?, ?, ?, ?): the
\* row that holds the key is deleted and the new row inserted.
put_attributes(table, sender, entry) ==
    LET row == [identifier |-> Identifier_to_sql(sender),
                attributes |-> minicbor_to_vec(entry.attrs),
                added |-> u64_to_sql(entry.added),
                expires |-> {u64_to_sql(e) : e \in entry.expires},
                attested_by |->
                    {Identifier_to_sql(e) : e \in entry.attested_by}]
    IN  Wrote(Append(SelectSeq(table,
                               LAMBDA r : ~KeyViolation(<<r>>, row)),
                     row),
              Ok(None))

\* put_attribute_value, the read: the attributes stored for the subject, or
\* an empty map.
put_attribute_value_read(table, subject) ==
    LET r == get_attributes(table, subject)
    IN  IF ~r.ok THEN r
        ELSE IF r.value = None THEN Ok({})
        ELSE Ok((CHOOSE entry \in r.value : TRUE).attrs)

\* put_attribute_value, the write: the pair is inserted in the map that was
\* read and the self-attested entry stored.
put_attribute_value_write(table, subject, attributes, name, value, now) ==
    put_attributes(table, subject,
        AttributesEntry_new(insert(attributes, name, value), now, None,
                            Some(subject)))

\* Faulty variant of delete: the WHERE clause is missing.
delete_all(table, identity) == Wrote(<<>>, Ok(None))

\* DELETE FROM identity_attributes WHERE identifier = ?
delete(table, identity) ==
    Wrote(SelectSeq(table,
                    LAMBDA r : r.identifier # Identifier_to_sql(identity)),
          Ok(None))

\* The attribute-writer call that returned in the last step: its name and
\* arguments, its Result, and the table as its last statement found it.
AttributesCall(op, identifier, entry, name, value, ok, before) ==
    [op |-> op, identifier |-> identifier, entry |-> entry,
     attribute_name |-> name, attribute_value |-> value,
     ok |-> ok, before |-> before]

\* No attribute-writer call returned in the last step.
NoAttributesCall == AttributesCall("-", "-", None, "-", "-", TRUE, <<>>)

\* ------------------------------------------ policy repository: operations
\* PolicySqlxDatabase keeps one expression per (resource, action) in the SQL
\* table `policy`.
Resources == {[name |-> "r1"], [name |-> "r2"]}
Actions == {[name |-> "a1"], [name |-> "a2"]}

\* The expressions handed to set_policy.
Exprs == {[kind |-> "Int", text |-> "345"], [kind |-> "Bool", text |-> "true"]}

\* impl ToSqlxType for Resource / for Action, and PolicyRow::action
Resource_to_sql(resource) == resource.name
Action_to_sql(action) == action.name
PolicyRow_action(row) == [name |-> row.action]

\* minicbor::to_vec of an expression: the index of its variant and then its
\* content; minicbor::decode reads that back and fails on any other bytes.
Expr_to_vec(expression) ==
    <<IF expression.kind = "Int" THEN 2 ELSE 4, expression.text>>
Expr_decode(bytes) ==
    IF Len(bytes) = 2 /\ bytes[1] \in {2, 4}
    THEN Ok([kind |-> IF bytes[1] = 2 THEN "Int" ELSE "Bool",
             text |-> bytes[2]])
    ELSE Internal

\* PolicyRow::expression
PolicyRow_expression(row) == Expr_decode(row.expression)

\* The store is keyed by (resource, action).
PolicyKeyViolation(table, row) ==
    \E k \in 1..Len(table) :
        table[k].resource = row.resource /\ table[k].action = row.action

\* SELECT * FROM policy WHERE resource=$1 and action=$2
get_policy(table, resource, action) ==
    LET row == fetch_optional(SelectSeq(table,
                   LAMBDA r : /\ r.resource = Resource_to_sql(resource)
                              /\ r.action = Action_to_sql(action)))
    IN  transpose({PolicyRow_expression(r) : r \in row})

\* Faulty variant of set_policy: the new row is inserted and the row that
\* holds the key is left in place.
set_policy_keeps_old(table, resource, action, expression) ==
    LET row == [resource |-> Resource_to_sql(resource),
                action |-> Action_to_sql(action),
                expression |-> Expr_to_vec(expression)]
    IN  Wrote(Append(table, row), Ok(None))

\* INSERT OR REPLACE INTO policy VALUES (?, ?, ?): the row that holds the key
\* is deleted and the new row inserted.
set_policy(table, resource, action, expression) ==
    LET row == [resource |-> Resource_to_sql(resource),
                action |-> Action_to_sql(action),
                expression |-> Expr_to_vec(expression)]
    IN  Wrote(Append(SelectSeq(table,
                               LAMBDA r : ~PolicyKeyViolation(<<r>>, row)),
                     row),
              Ok(None))

\* Faulty variant of delete_policy: the action is left out of the WHERE
\* clause.
delete_policy_of_resource(table, resource, action) ==
    Wrote(SelectSeq(table,
                    LAMBDA r : r.resource # Resource_to_sql(resource)),
          Ok(None))

\* DELETE FROM policy WHERE resource = ? and action = ?
delete_policy(table, resource, action) ==
    Wrote(SelectSeq(table,
                    LAMBDA r : ~( /\ r.resource = Resource_to_sql(resource)
                                  /\ r.action = Action_to_sql(action) )),
          Ok(None))

\* SELECT * FROM policy where resource = $1, each row made an
\* (action, expression) pair.
get_policies_by_resource(table, resource) ==
    LET rows == SelectSeq(table,
                    LAMBDA r : r.resource = Resource_to_sql(resource))
    IN  IF \E k \in 1..Len(rows) : ~PolicyRow_expression(rows[k]).ok
        THEN Internal
        ELSE Ok([k \in 1..Len(rows) |->
                   <<PolicyRow_action(rows[k]),
                     PolicyRow_expression(rows[k]).value>>])

\* The PoliciesRepository call that returned in the last step, and the
\* table as it found it.
PolicyCall(op, resource, action, expression, before) ==
    [op |-> op, resource |-> resource, action |-> action,
     expression |-> expression, before |-> before]

\* No PoliciesRepository call returned in the last step.
NoPolicyCall == PolicyCall("-", [name |-> "-"], [name |-> "-"], None, <<>>)

\* -------------------------------------- enrollments repository: operations
\* EnrollmentsSqlxDatabase keeps the time of enrollment of an identity in the
\* SQL table `identity_enrollment` and reads it joined with the table
\* `identity`.

\* OffsetDateTime::to_sql and OffsetDateTime::from_unix_timestamp: a time is
\* stored as its number of seconds, and a stored number that is no timestamp
\* reads as the current time.
OffsetDateTime_to_sql(time) == time.unix_timestamp
OffsetDateTime_from_unix_timestamp(at, now) ==
    IF at \in 0..(2 ^ TimestampBits - 1)
    THEN [unix_timestamp |-> at]
    ELSE [unix_timestamp |-> now]

\* The store is keyed by the identifier.
EnrollmentKeyViolation(table, row) ==
    \E k \in 1..Len(table) : table[k].identifier = row.identifier

\* INSERT OR REPLACE INTO identity_enrollment VALUES (?, ?)
enroll_identity(table, identifier, now) ==
    LET row == [identifier |-> Identifier_to_sql(identifier),
                enrolled_at |-> OffsetDateTime_to_sql(now)]
    IN  Wrote(Append(SelectSeq(table,
                               LAMBDA r : ~EnrollmentKeyViolation(<<r>>, row)),
                     row),
              Ok(None))

\* The pairs of row numbers of two tables, the rows of the left table in the
\* outer loop; the right table has `right` rows.
RowPairs(left, right) ==
    [k \in 1..(Len(left) * right) |->
        <<((k - 1) \div right) + 1, ((k - 1) % right) + 1>>]

\* The columns identity.identifier, identity.name and
\* identity_enrollment.enrolled_at of a joined row; a row of `identity` with
\* no enrollment has NULL as the third.
EnrollmentRow(identity_row, enrollment_rows) ==
    [identifier |-> identity_row.identifier,
     name |-> identity_row.name,
     enrolled_at |-> {r.enrolled_at : r \in enrollment_rows}]

\* FROM identity INNER JOIN identity_enrollment ON
\*   identity.identifier = identity_enrollment.identifier
inner_join(identities, enrollments) ==
    LET pairs == SelectSeq(RowPairs(identities, Len(enrollments)),
                     LAMBDA p : identities[p[1]].identifier
                                  = enrollments[p[2]].identifier)
    IN  [k \in 1..Len(pairs) |->
           EnrollmentRow(identities[pairs[k][1]], {enrollments[pairs[k][2]]})]

\* FROM identity LEFT JOIN identity_enrollment ON
\*   identity.identifier = identity_enrollment.identifier
left_join(identities, enrollments) ==
    LET no_row == Len(enrollments) + 1
        matches(p) ==
            IF p[2] = no_row
            THEN \A j \in 1..Len(enrollments) :
                    identities[p[1]].identifier # enrollments[j].identifier
            ELSE identities[p[1]].identifier = enrollments[p[2]].identifier
        pairs == SelectSeq(RowPairs(identities, no_row), matches)
    IN  [k \in 1..Len(pairs) |->
           EnrollmentRow(identities[pairs[k][1]],
                         IF pairs[k][2] = no_row
                         THEN {}
                         ELSE {enrollments[pairs[k][2]]})]

\* EnrollmentRow::identity_enrollment, with EnrollmentRow::enrolled_at
EnrollmentRow_identity_enrollment(row, now) ==
    LET identifier == Identifier_from_str(row.identifier)
    IN  IF ~identifier.ok
        THEN Internal
        ELSE Ok([identifier |-> identifier.value,
                 name |-> row.name,
                 enrolled_at |->
                     {OffsetDateTime_from_unix_timestamp(at, now) :
                         at \in row.enrolled_at}])

\* The rows of a query, each made an IdentityEnrollment; the first failure
\* is returned.
collect_identity_enrollments(rows, now) ==
    IF \E k \in 1..Len(rows) : ~EnrollmentRow_identity_enrollment(rows[k], now).ok
    THEN Internal
    ELSE Ok([k \in 1..Len(rows) |->
               EnrollmentRow_identity_enrollment(rows[k], now).value])

\* get_enrolled_identities()
get_enrolled_identities(identities, enrollments, now) ==
    collect_identity_enrollments(inner_join(identities, enrollments), now)

\* get_all_identities_enrollments()
get_all_identities_enrollments(identities, enrollments, now) ==
    collect_identity_enrollments(left_join(identities, enrollments), now)

\* Faulty variant of is_default_identity_enrolled: the condition on
\* identity.is_default is left out of the join.
is_default_identity_enrolled_any(identities, enrollments) ==
    LET pairs == SelectSeq(RowPairs(identities, Len(enrollments)),
                     LAMBDA p : identities[p[1]].identifier
                                  = enrollments[p[2]].identifier)
        result == fetch_optional(pairs)
    IN  Ok(result # None)

\* is_default_identity_enrolled(): the join has the condition
\* identity.is_default = ? (bound to true) as well.
is_default_identity_enrolled(identities, enrollments) ==
    LET pairs == SelectSeq(RowPairs(identities, Len(enrollments)),
                     LAMBDA p : /\ identities[p[1]].identifier
                                     = enrollments[p[2]].identifier
                                /\ identities[p[1]].is_default)
        result == fetch_optional(pairs)
    IN  Ok(result # None)

\* ------------------------------------------------- SqliteDb: operations
\* IdentitiesSqliteRepository runs its statements on the one connection of
\* SqliteDb, which is kept in a mutex that does not admit a second lock by
\* the thread that holds it.

\* The threads that call the repository.
Threads == {"t1", "t2"}

\* self.connection.lock().unwrap() by `thread`: the lock is acquired when
\* the mutex is free, and the call panics when a holder has panicked before.
\* While another thread holds the mutex there is no outcome yet. A lock by
\* the holder itself never returns: it blocks for ever or it panics.
Mutex_lock(mutex, thread) ==
    IF mutex.holder = Some(thread) THEN {"deadlock", "panic"}
    ELSE IF mutex.holder # None THEN {}
    ELSE IF mutex.poisoned THEN {"panic"}
    ELSE {"acquired"}

\* The guard is dropped: at the end of its scope, or while its holder
\* unwinds from a panic, which poisons the mutex.
Mutex_unlock(mutex, panicking) ==
    [holder |-> None, poisoned |-> mutex.poisoned \/ panicking]

\* A thread of the caller: the method it has called with its arguments, the
\* place it has reached in it, and what the method it called last returned.
SqliteCall(op, subject, name, value, at, returned) ==
    [op |-> op, subject |-> subject, name |-> name, value |-> value,
     at |-> at, returned |-> returned]

\* The thread is in no call; its last call returned `returned`.
SqliteIdle(returned) == SqliteCall("-", "-", "-", "-", "idle", returned)

\* ------------------------------------------------ relay creation: operations
\* AppState::create_relay creates the relay of the application's node at the
\* default project.

\* NODE_NAME and RELAY_NAME
NODE_NAME == "ockam_app"
RELAY_NAME == "forward_to_" \o NODE_NAME

\* The remote addresses of relays that other callers create on the node.
OtherRelays == {"forward_to_n1", "forward_to_n2"}

\* CliState: whether the default identity is enrolled, and whether a default
\* space and a default project are set.
CliState_new ==
    [identity_enrolled |-> FALSE, default_space |-> FALSE,
     default_project |-> FALSE]

\* CliState::is_enrolled
is_enrolled(cli_state) ==
    IF ~cli_state.identity_enrolled THEN Ok(FALSE)
    ELSE IF ~cli_state.default_space THEN Internal
    ELSE IF ~cli_state.default_project THEN Internal
    ELSE Ok(TRUE)

\* get_relay: the relay of the node whose remote address is RELAY_NAME
get_relay(node_relays) == {r \in node_relays : r = RELAY_NAME}

\* What an attempt leaves: its result, the relays of the node and the
\* status of the orchestrator.
Attempt(result, node_relays, status) ==
    [result |-> result, relays |-> node_relays, status |-> status]

\* create_relay_impl; `created` is whether the node manager manages to
\* create the relay when asked to. An is_enrolled that fails counts as
\* false (unwrap_or).
create_relay_impl(cli_state, node_relays, status, created) ==
    IF ~(is_enrolled(cli_state).ok /\ is_enrolled(cli_state).value)
    THEN Attempt(Ok(None), node_relays, status)
    ELSE IF ~cli_state.default_project
    THEN Attempt(Ok(None), node_relays, status)
    ELSE IF get_relay(node_relays) # None
    THEN Attempt(Ok(get_relay(node_relays)), node_relays, "Connected")
    ELSE IF created
    THEN Attempt(Ok(Some(RELAY_NAME)), node_relays \cup {RELAY_NAME},
                 "Connected")
    ELSE Attempt(Internal, node_relays, status)

VARIABLES
    handshake,      \* ResponderStateMachine.handshake: status and final state
    trust_policy,   \* the trust policy the machine was constructed with
    trace,          \* one record per on_event call delivered so far
    handshake2,     \* the Handshake owned by a second ResponderStateMachine
    trust_policy2,  \* the trust policy of the second machine
    trace2,         \* one record per on_event call of the second machine
    identity,       \* the rows of the SQL table `identity`
    identity_attributes,  \* the rows of the SQL table `identity_attributes`
    in_flight,      \* the repository calls between their two statements
    completed,      \* the repository call that returned in the last step
    lifecycle,      \* per identifier: never stored, stored, or deleted
    named,          \* per name: the identifier it was last given to
    attribute_calls,      \* the attribute-writer calls started so far
    pending_values,       \* put_attribute_value calls between read and write
    attributes_returned,  \* the attribute-writer call that returned last
    policy_table,         \* the rows of the SQL table `policy`
    policy_returned,      \* the PoliciesRepository call that returned last
    policy_set,           \* per (resource, action): the expression last set
    identity_enrollment,  \* the rows of the SQL table `identity_enrollment`
    enrolled,             \* the identifiers enroll_identity was called for
    connection,           \* SqliteDb.connection: the mutex of the connection
    sqlite_calls,         \* per thread: its call of IdentitiesSqliteRepository
    cli_state,            \* CliState: enrollment, default space and project
    relays,               \* the remote addresses of the relays of the node
    orchestrator_status,  \* AppState's OrchestratorStatus
    create_relay_at       \* the place AppState::create_relay has reached

\* The second machine, which only the two-machine specification drives.
second == <<handshake2, trust_policy2, trace2>>

\* The identities repository and what is recorded of the calls made on it.
repository ==
    <<identity, identity_attributes, in_flight, completed, lifecycle, named>>

\* What is recorded of the attribute-writer calls.
attributes == <<attribute_calls, pending_values, attributes_returned>>

\* The policy repository and what is recorded of the calls made on it.
policies == <<policy_table, policy_returned, policy_set>>

\* The enrollments repository and the calls made on it.
enrollments == <<identity_enrollment, enrolled>>

\* SqliteDb and the calls made on the repository that uses it.
sqlite == <<connection, sqlite_calls>>

\* The application: its node, its state and its call of create_relay.
relay == <<cli_state, relays, orchestrator_status, create_relay_at>>

\* The components other than the SQL tables and SqliteDb.
after_sqlite == <<relay>>

\* The components other than the SQL tables.
after_enrollments == <<sqlite, after_sqlite>>

\* The components other than the repository of identities, of attributes and
\* of policies.
after_policies == <<enrollments, after_enrollments>>

\* The components other than the identities repository and its attributes.
after_attributes == <<policies, after_policies>>

\* Everything but the responder machines and the identities repository.
rest == <<attributes, after_attributes>>

vars == <<handshake, trust_policy, trace, second, repository, rest>>

\* The record kept of one on_event call: the status it found, the event, the
\* Result it returned, the engine operations it invoked, and the status and
\* get_final_state() it left.
Step(pre, event, r) ==
    [pre |-> pre, event |-> event, result |-> r.result, calls |-> r.calls,
     post |-> r.hs.status, final |-> get_final_state(r.hs)]

\* A repository on a freshly migrated database, on which no call is made.
RepositoryIdle ==
    /\ identity = <<>>
    /\ identity_attributes = <<>>
    /\ in_flight = {}
    /\ completed = NoCall
    /\ lifecycle = [i \in Identifiers |-> "never"]
    /\ named = [n \in Names |-> None]

\* No attribute-writer call has been made.
AttributesIdle ==
    /\ attribute_calls = 0
    /\ pending_values = {}
    /\ attributes_returned = NoAttributesCall

\* A policy repository on a freshly migrated database.
PoliciesIdle ==
    /\ policy_table = <<>>
    /\ policy_returned = NoPolicyCall
    /\ policy_set = [r \in Resources, a \in Actions |-> None]

\* An enrollments repository on a freshly migrated database.
EnrollmentsIdle ==
    /\ identity_enrollment = <<>>
    /\ enrolled = {}

\* IdentitiesSqliteRepository on a freshly created SqliteDb.
SqliteIdleAll ==
    /\ connection = [holder |-> None, poisoned |-> FALSE]
    /\ sqlite_calls = [t \in Threads |-> SqliteIdle("-")]

\* An application that has not enrolled and has not called create_relay.
RelayIdle ==
    /\ cli_state = CliState_new
    /\ relays = {}
    /\ orchestrator_status = "Disconnected"
    /\ create_relay_at = "idle"

\* The other components as they are constructed, with no call made on them.
RestIdle ==
    /\ AttributesIdle
    /\ PoliciesIdle
    /\ EnrollmentsIdle
    /\ SqliteIdleAll
    /\ RelayIdle

\* A second machine that has been constructed and is delivered no event.
SecondIdle ==
    /\ handshake2 = Handshake_new
    /\ trust_policy2 = trust_policy
    /\ trace2 = <<>>

\* ResponderStateMachine::new
Init ==
    /\ handshake = Handshake_new
    /\ trust_policy \in TrustPolicies
    /\ trace = <<>>
    /\ SecondIdle
    /\ RepositoryIdle
    /\ RestIdle

\* The transport delivers `event` to on_event; `fault` is the engine fault
\* that strikes during the call.
Deliver(event, fault) ==
    LET r == on_event(handshake, event, trust_policy, fault)
    IN  /\ handshake' = r.hs
        /\ trace' = Append(trace, Step(handshake.status, event, r))

\* on_event(Initialize)
OnEventInitialize ==
    /\ Len(trace) < MaxEvents
    /\ \E fault \in Faults : Deliver(Initialize, fault)
    /\ UNCHANGED <<trust_policy, second, repository, rest>>

\* on_event(ReceivedMessage(m))
OnEventReceivedMessage ==
    /\ Len(trace) < MaxEvents
    /\ \E m \in Bytes, fault \in Faults : Deliver(ReceivedMessage(m), fault)
    /\ UNCHANGED <<trust_policy, second, repository, rest>>

Next == OnEventInitialize \/ OnEventReceivedMessage

Spec == Init /\ [][Next]_vars

\* on_event applied to a handshake in any status that precedes the terminal
\* one: the handshake state is a field of the machine that on_event reads on
\* entry, and each arm of the match is exercised from the status it matches.
\* There is no final state before the terminal status; Done itself is
\* entered only through set_final_state.
InitAtStatus ==
    /\ \E st \in Status \ {"Done"} :
         handshake = [status |-> st, final_state |-> None]
    /\ trust_policy \in TrustPolicies
    /\ trace = <<>>
    /\ SecondIdle
    /\ RepositoryIdle
    /\ RestIdle

SpecAtStatus == InitAtStatus /\ [][Next]_vars

\* ------------------------------------------------- two responder attempts
\* Two machines, each constructed with its own Handshake and each found in a
\* status that precedes the terminal one; the second has the trust policy of
\* the first or another one.
InitTwoResponders ==
    /\ \E st \in Status \ {"Done"} :
         handshake = [status |-> st, final_state |-> None]
    /\ \E st \in Status \ {"Done"} :
         handshake2 = [status |-> st, final_state |-> None]
    /\ trust_policy = {"alice"}
    /\ trust_policy2 \in TrustPolicies
    /\ trace = <<>>
    /\ trace2 = <<>>
    /\ RepositoryIdle
    /\ RestIdle

\* Faulty variant of DeliverSecond: the two machines share one Handshake, so
\* an event delivered to the second machine is processed on, and written to,
\* the state of the first.
DeliverSecond_shared(event, fault) ==
    LET r == on_event(handshake, event, trust_policy2, fault)
    IN  /\ handshake' = r.hs
        /\ handshake2' = r.hs
        /\ trace2' = Append(trace2, Step(handshake.status, event, r))

\* on_event(&mut self, event) on the second machine: it reads and writes the
\* Handshake that machine owns and nothing of the first.
DeliverSecond(event, fault) ==
    LET r == on_event(handshake2, event, trust_policy2, fault)
    IN  /\ handshake2' = r.hs
        /\ trace2' = Append(trace2, Step(handshake2.status, event, r))
        /\ UNCHANGED handshake

\* An event is delivered to the first machine.
OnEventFirst ==
    /\ Len(trace) + Len(trace2) < MaxEvents
    /\ \/ \E fault \in Faults : Deliver(Initialize, fault)
       \/ \E m \in Bytes, fault \in Faults :
             Deliver(ReceivedMessage(m), fault)
    /\ UNCHANGED <<trust_policy, second, repository, rest>>

\* An event is delivered to the second machine.
OnEventSecond ==
    /\ Len(trace) + Len(trace2) < MaxEvents
    /\ \/ \E fault \in Faults : DeliverSecond(Initialize, fault)
       \/ \E m \in Bytes, fault \in Faults :
             DeliverSecond(ReceivedMessage(m), fault)
    /\ UNCHANGED <<trust_policy, trace, trust_policy2, repository, rest>>

NextTwoResponders == OnEventFirst \/ OnEventSecond

SpecTwoResponders == InitTwoResponders /\ [][NextTwoResponders]_vars

\* ------------------------------------------ identities repository: calls
\* The responder machines, which the repository calls leave alone.
responders == <<handshake, trust_policy, trace, second>>

\* IdentitiesSqlxDatabase::new on a freshly migrated database.
InitRepository ==
    /\ handshake = Handshake_new
    /\ trust_policy = {"alice"}
    /\ trace = <<>>
    /\ SecondIdle
    /\ RepositoryIdle
    /\ RestIdle

\* store_identity(identity)
StoreIdentity ==
    \E i \in IdentitySet :
        LET w == store_identity(identity, i)
        IN  /\ identity' = w.table
            /\ completed' = Completed("store_identity", i.identifier, "-",
                                      i.change_history, w.result.ok,
                                      w.result.ok)
            /\ lifecycle' = IF w.result.ok
                            THEN [lifecycle EXCEPT ![i.identifier] = "stored"]
                            ELSE lifecycle
            /\ UNCHANGED <<identity_attributes, in_flight, named, responders, rest>>

\* name_identity(identifier, name)
NameIdentity ==
    \E i \in Identifiers, n \in Names :
        LET w == name_identity(identity, i, n)
        IN  /\ identity' = w.table
            /\ completed' = Completed("name_identity", i, n, <<>>,
                                      w.result.ok, lifecycle[i] = "stored")
            /\ named' = IF w.result.ok /\ lifecycle[i] = "stored"
                        THEN [m \in Names |->
                                IF m = n THEN Some(i)
                                ELSE IF named[m] = Some(i) THEN None
                                ELSE named[m]]
                        ELSE named
            /\ UNCHANGED <<identity_attributes, in_flight, lifecycle,
                           responders, rest>>

\* set_as_default(identifier), up to the await of its first statement
SetAsDefaultQuery1 ==
    /\ Cardinality(in_flight) < MaxInFlight
    /\ \E i \in Identifiers :
        LET w == set_as_default_query1(identity, i)
        IN  /\ identity' = w.table
            /\ in_flight' = in_flight \cup
                 {InFlight("set_as_default", i, lifecycle[i] = "stored")}
            /\ completed' = NoCall
            /\ UNCHANGED <<identity_attributes, lifecycle, named, responders, rest>>

\* set_as_default(identifier), from its second statement to its return
SetAsDefaultQuery2 ==
    \E c \in in_flight :
        /\ c.op = "set_as_default"
        /\ LET w == set_as_default_query2(identity, c.identifier)
           IN  /\ identity' = w.table
               /\ in_flight' = in_flight \ {c}
               /\ completed' = Completed("set_as_default", c.identifier, "-",
                                         <<>>, w.result.ok, c.on_stored)
        /\ UNCHANGED <<identity_attributes, lifecycle, named, responders, rest>>

\* set_as_default_by_name(name)
SetAsDefaultByName ==
    \E n \in Names :
        LET w == set_as_default_by_name(identity, n)
        IN  /\ identity' = w.table
            /\ completed' = Completed("set_as_default_by_name", "-", n, <<>>,
                                      w.result.ok, FALSE)
            /\ UNCHANGED <<identity_attributes, in_flight, lifecycle, named,
                           responders, rest>>

\* update_identity(identity)
UpdateIdentity ==
    \E i \in IdentitySet :
        LET w == update_identity(identity, i)
        IN  /\ identity' = w.table
            /\ completed' = Completed("update_identity", i.identifier, "-",
                                      i.change_history, w.result.ok,
                                      lifecycle[i.identifier] = "stored")
            /\ UNCHANGED <<identity_attributes, in_flight, lifecycle, named,
                           responders, rest>>

\* delete_identity(identifier), up to the await of its first statement.  A
\* set_as_default in flight for the same identifier no longer is a call on
\* a stored identity.
DeleteIdentityQuery1 ==
    /\ Cardinality(in_flight) < MaxInFlight
    /\ \E i \in Identifiers :
        LET w == delete_identity_query1(identity, i)
        IN  /\ identity' = w.table
            /\ in_flight' =
                 {IF c.identifier = i
                  THEN InFlight(c.op, i, FALSE) ELSE c : c \in in_flight}
                 \cup {InFlight("delete_identity", i, FALSE)}
            /\ completed' = NoCall
            /\ lifecycle' = IF lifecycle[i] = "stored"
                            THEN [lifecycle EXCEPT ![i] = "deleted"]
                            ELSE lifecycle
            /\ named' = [m \in Names |->
                           IF named[m] = Some(i) THEN None ELSE named[m]]
            /\ UNCHANGED <<identity_attributes, responders, rest>>

\* delete_identity(identifier), from its second statement to its return
DeleteIdentityQuery2 ==
    \E c \in in_flight :
        /\ c.op = "delete_identity"
        /\ LET w == delete_identity_query2(identity_attributes, c.identifier)
           IN  /\ identity_attributes' = w.table
               /\ in_flight' = in_flight \ {c}
               /\ completed' = Completed("delete_identity", c.identifier, "-",
                                         <<>>, w.result.ok, FALSE)
        /\ UNCHANGED <<identity, lifecycle, named, responders, rest>>

NextRepository ==
    \/ StoreIdentity
    \/ NameIdentity
    \/ SetAsDefaultQuery1
    \/ SetAsDefaultQuery2
    \/ SetAsDefaultByName
    \/ UpdateIdentity
    \/ DeleteIdentityQuery1
    \/ DeleteIdentityQuery2

SpecRepository == InitRepository /\ [][NextRepository]_vars

\* ---------------------------------------- identity attributes: calls
\* The identities table and what is recorded of the calls on it.
identities == <<identity, in_flight, completed, lifecycle, named>>

\* put_attributes(identity, entry)
PutAttributes ==
    /\ attribute_calls < MaxAttributeCalls
    /\ \E i \in Identifiers, entry \in EntrySet :
        LET w == put_attributes(identity_attributes, i, entry)
        IN  /\ identity_attributes' = w.table
            /\ attributes_returned' =
                 AttributesCall("put_attributes", i, Some(entry), "-", "-",
                                w.result.ok, identity_attributes)
    /\ attribute_calls' = attribute_calls + 1
    /\ UNCHANGED <<pending_values, identities, responders,
                   after_attributes>>

\* put_attribute_value(subject, name, value), up to the await of its read
PutAttributeValueRead ==
    /\ attribute_calls < MaxAttributeCalls
    /\ Cardinality(pending_values) < MaxInFlight
    /\ \E i \in Identifiers, n \in AttributeNames, v \in AttributeValues :
        LET r == put_attribute_value_read(identity_attributes, i)
        IN  /\ r.ok
            /\ pending_values' = pending_values \cup
                 {[subject |-> i, attribute_name |-> n,
                   attribute_value |-> v, attributes |-> r.value]}
    /\ attribute_calls' = attribute_calls + 1
    /\ attributes_returned' = NoAttributesCall
    /\ UNCHANGED <<identity_attributes, identities, responders,
                   after_attributes>>

\* put_attribute_value(subject, name, value), from its write to its return
PutAttributeValueWrite ==
    /\ \E c \in pending_values, now \in Clock :
        LET w == put_attribute_value_write(identity_attributes, c.subject,
                     c.attributes, c.attribute_name, c.attribute_value, now)
        IN  /\ identity_attributes' = w.table
            /\ pending_values' = pending_values \ {c}
            /\ attributes_returned' =
                 AttributesCall("put_attribute_value", c.subject, None,
                                c.attribute_name, c.attribute_value,
                                w.result.ok, identity_attributes)
    /\ UNCHANGED <<attribute_calls, identities, responders,
                   after_attributes>>

\* delete(identity)
Delete ==
    /\ attribute_calls < MaxAttributeCalls
    /\ \E i \in Identifiers :
        LET w == delete(identity_attributes, i)
        IN  /\ identity_attributes' = w.table
            /\ attributes_returned' =
                 AttributesCall("delete", i, None, "-", "-", w.result.ok,
                                identity_attributes)
    /\ attribute_calls' = attribute_calls + 1
    /\ UNCHANGED <<pending_values, identities, responders,
                   after_attributes>>

NextAttributes ==
    \/ PutAttributes
    \/ PutAttributeValueRead
    \/ PutAttributeValueWrite
    \/ Delete

SpecAttributes == InitRepository /\ [][NextAttributes]_vars

\* ------------------------------------------------ policy repository: calls
\* set_policy(resource, action, expression)
SetPolicy ==
    \E r \in Resources, a \in Actions, e \in Exprs :
        LET w == set_policy(policy_table, r, a, e)
        IN  /\ policy_table' = w.table
            /\ policy_returned' =
                 PolicyCall("set_policy", r, a, Some(e), policy_table)
            /\ policy_set' = IF w.result.ok
                             THEN [policy_set EXCEPT ![r, a] = Some(e)]
                             ELSE policy_set
            /\ UNCHANGED <<responders, repository, attributes, after_policies>>

\* delete_policy(resource, action)
DeletePolicy ==
    \E r \in Resources, a \in Actions :
        LET w == delete_policy(policy_table, r, a)
        IN  /\ policy_table' = w.table
            /\ policy_returned' =
                 PolicyCall("delete_policy", r, a, None, policy_table)
            /\ policy_set' = IF w.result.ok
                             THEN [policy_set EXCEPT ![r, a] = None]
                             ELSE policy_set
            /\ UNCHANGED <<responders, repository, attributes, after_policies>>

NextPolicies == SetPolicy \/ DeletePolicy

SpecPolicies == InitRepository /\ [][NextPolicies]_vars

\* ------------------------------------------- enrollments repository: calls
\* enroll_identity(identifier)
EnrollIdentity ==
    \E identifier \in Identifiers, now \in Clock :
        LET w == enroll_identity(identity_enrollment, identifier,
                                 [unix_timestamp |-> now])
        IN  /\ identity_enrollment' = w.table
            /\ enrolled' = IF w.result.ok
                           THEN enrolled \cup {identifier}
                           ELSE enrolled
            /\ UNCHANGED <<responders, repository, attributes, policies,
                           after_enrollments>>

\* The calls of the enrollments repository, and the calls of the identities
\* repository that store, mark and delete the identities it reads.
NextEnrollments ==
    \/ EnrollIdentity
    \/ StoreIdentity
    \/ SetAsDefaultQuery1
    \/ SetAsDefaultQuery2
    \/ DeleteIdentityQuery1
    \/ DeleteIdentityQuery2

SpecEnrollments == InitRepository /\ [][NextEnrollments]_vars

\* ------------------------------------------ IdentitiesSqliteRepository: calls
\* The tables and components that the SqliteDb calls do not touch.
outside_sqlite ==
    <<responders, repository, attributes, policies, enrollments, after_sqlite>>

\* put_attribute_value(subject, attribute_name, attribute_value) is called:
\* put_attribute_value_sync enters with_transaction.
SqlitePutAttributeValue(t) ==
    /\ sqlite_calls[t].at = "idle"
    /\ \E subject \in Identifiers, name \in AttributeNames, value \in AttributeValues :
         sqlite_calls' = [sqlite_calls EXCEPT ![t] =
             SqliteCall("put_attribute_value", subject, name, value,
                        "with_transaction", "-")]
    /\ UNCHANGED <<connection, outside_sqlite>>

\* with_transaction locks the connection and begins the transaction, to
\* call the closure with the guard alive.
WithTransaction(t) ==
    /\ sqlite_calls[t].at = "with_transaction"
    /\ \E outcome \in Mutex_lock(connection, t) :
         IF outcome = "acquired"
         THEN /\ connection' = [connection EXCEPT !.holder = Some(t)]
              /\ sqlite_calls' =
                   [sqlite_calls EXCEPT ![t].at = "get_attributes_sync"]
         ELSE /\ connection' = connection
              /\ sqlite_calls' = [sqlite_calls EXCEPT ![t].at = "panicked"]
    /\ UNCHANGED outside_sqlite

\* The closure calls get_attributes_sync first, whose query_maybe_one locks
\* the connection again. The statements after it run once that lock
\* returns.
QueryMaybeOne(t) ==
    /\ sqlite_calls[t].at = "get_attributes_sync"
    /\ \E outcome \in Mutex_lock(connection, t) :
         \/ /\ outcome = "deadlock"
            /\ connection' = connection
            /\ sqlite_calls' = [sqlite_calls EXCEPT ![t].at = "blocked"]
         \/ /\ outcome = "panic"
            /\ connection' = Mutex_unlock(connection, TRUE)
            /\ sqlite_calls' = [sqlite_calls EXCEPT ![t].at = "panicked"]
    /\ UNCHANGED outside_sqlite

\* delete(identity) is called: execute enters execute_statement.
SqliteDelete(t) ==
    /\ sqlite_calls[t].at = "idle"
    /\ \E subject \in Identifiers :
         sqlite_calls' = [sqlite_calls EXCEPT ![t] =
             SqliteCall("delete", subject, "-", "-", "execute_statement", "-")]
    /\ UNCHANGED <<connection, outside_sqlite>>

\* execute_statement locks the connection, executes the statement and drops
\* the guard; execute returns Ok whatever the statement returned.
ExecuteStatement(t) ==
    /\ sqlite_calls[t].at = "execute_statement"
    /\ \E outcome \in Mutex_lock(connection, t) :
         IF outcome = "acquired"
         THEN sqlite_calls' = [sqlite_calls EXCEPT ![t] = SqliteIdle("Ok")]
         ELSE sqlite_calls' = [sqlite_calls EXCEPT ![t].at = "panicked"]
    /\ UNCHANGED <<connection, outside_sqlite>>

\* A step of a call that is in progress.
SqliteStep(t) ==
    \/ WithTransaction(t)
    \/ QueryMaybeOne(t)
    \/ ExecuteStatement(t)

NextSqlite ==
    \E t \in Threads :
        \/ SqlitePutAttributeValue(t)
        \/ SqliteDelete(t)
        \/ SqliteStep(t)

SpecSqlite == InitRepository /\ [][NextSqlite]_vars

\* A thread that is in a call and can take its next step does take it.
SpecSqliteFair == SpecSqlite /\ \A t \in Threads : WF_vars(SqliteStep(t))

\* --------------------------------------------------- relay creation: calls
\* The components that relay creation does not touch.
outside_relay ==
    <<responders, repository, attributes, policies, enrollments, sqlite>>

\* The user enrolls: the default identity is enrolled, then a default space
\* and a default project are set.
EnrollDefaultIdentity ==
    /\ ~cli_state.identity_enrolled
    /\ cli_state' = [cli_state EXCEPT !.identity_enrolled = TRUE]
    /\ UNCHANGED <<relays, orchestrator_status, create_relay_at, outside_relay>>

SetDefaultSpace ==
    /\ ~cli_state.default_space
    /\ cli_state' = [cli_state EXCEPT !.default_space = TRUE]
    /\ UNCHANGED <<relays, orchestrator_status, create_relay_at, outside_relay>>

SetDefaultProject ==
    /\ ~cli_state.default_project
    /\ cli_state' = [cli_state EXCEPT !.default_project = TRUE]
    /\ UNCHANGED <<relays, orchestrator_status, create_relay_at, outside_relay>>

\* CliState::reset
Reset ==
    /\ cli_state # CliState_new
    /\ cli_state' = CliState_new
    /\ UNCHANGED <<relays, orchestrator_status, create_relay_at, outside_relay>>

\* Another caller creates a relay on the node.
CreateOtherRelay ==
    /\ \E r \in OtherRelays \ relays : relays' = relays \cup {r}
    /\ UNCHANGED <<cli_state, orchestrator_status, create_relay_at, outside_relay>>

\* create_relay is called: the status is Connecting when the loop is entered.
CreateRelay ==
    /\ create_relay_at = "idle"
    /\ orchestrator_status' = "Connecting"
    /\ create_relay_at' = "loop"
    /\ UNCHANGED <<cli_state, relays, outside_relay>>

\* One turn of the loop: create_relay_impl, then break on Ok and sleep on Err.
CreateRelayAttempt ==
    /\ create_relay_at = "loop"
    /\ \E created \in BOOLEAN :
         LET a == create_relay_impl(cli_state, relays, orchestrator_status, created)
         IN  /\ relays' = a.relays
             /\ orchestrator_status' = a.status
             /\ create_relay_at' = IF a.result.ok THEN "returned" ELSE "sleep"
    /\ UNCHANGED <<cli_state, outside_relay>>

\* The sleep of 30 seconds ends.
CreateRelaySleep ==
    /\ create_relay_at = "sleep"
    /\ create_relay_at' = "loop"
    /\ UNCHANGED <<cli_state, relays, orchestrator_status, outside_relay>>

NextRelay ==
    \/ EnrollDefaultIdentity
    \/ SetDefaultSpace
    \/ SetDefaultProject
    \/ Reset
    \/ CreateOtherRelay
    \/ CreateRelay
    \/ CreateRelayAttempt
    \/ CreateRelaySleep

SpecRelay == InitRepository /\ [][NextRelay]_vars

\* ----------------------------------------------------------------- claims
Calls == 1..Len(trace)

\* The (status, event) pairs the match of on_event has an arm for.
Expected(status, event) ==
    \/ status = "Initial" /\ event.type = "Initialize"
    \/ status = "WaitingForMessage1" /\ event.type = "ReceivedMessage"
    \/ status = "WaitingForMessage3" /\ event.type = "ReceivedMessage"

\* Every engine operation the call invoked succeeded.
AllOk(step) == \A k \in 1..Len(step.calls) : step.calls[k].ok

\* The names of the engine operations the call invoked, in order.
Ops(step) == [k \in 1..Len(step.calls) |-> step.calls[k].op]

\* The rejection of an unexpected (status, event) pair.
Invalid == Err("Invalid", "Channel")

\* C1: a fresh responder that is delivered Initialize, ReceivedMessage(m1),
\* ReceivedMessage(m3) in that order, with every engine step succeeding and
\* the trust policy accepting the peer, returns NoAction, SendMessage(m2),
\* NoAction, ends in Done, and get_final_state() is Some final state with
\* the initiator's identity and the role Responder.
C1_HandshakeCompletes ==
    ( /\ Len(trace) >= 3
      /\ trace[1].pre = "Initial"
      /\ trace[1].event = Initialize
      /\ trace[2].event = ReceivedMessage("m1")
      /\ trace[3].event = ReceivedMessage("m3_alice")
      /\ "alice" \in trust_policy
      /\ \A i \in 1..3 : AllOk(trace[i]) )
    => /\ trace[1].result = NoAction
       /\ trace[2].result = SendMessage("m2")
       /\ trace[3].result = NoAction
       /\ trace[3].post = "Done"
       /\ trace[3].final =
            Some([their_identity |-> "alice", role |-> "Responder"])

\* C2: on_event(Initialize) in status Initial, when initialize succeeds,
\* invokes initialize, returns NoAction and leaves the stored status equal to
\* WaitingForMessage1, which the next on_event call observes.
C2_InitializeStoresWaitingForMessage1 ==
    \A i \in Calls :
        ( /\ trace[i].pre = "Initial"
          /\ trace[i].event = Initialize
          /\ AllOk(trace[i]) )
        => /\ Ops(trace[i]) = <<"initialize">>
           /\ trace[i].result = NoAction
           /\ trace[i].post = "WaitingForMessage1"
           /\ (i < Len(trace) => trace[i + 1].pre = "WaitingForMessage1")

Message3Succeeded(step) ==
    /\ step.pre = "WaitingForMessage3"
    /\ step.event.type = "ReceivedMessage"
    /\ Len(step.calls) = 3
    /\ AllOk(step)

C5_UnexpectedPairIsInvalid ==
    \A i \in Calls :
        ~Expected(trace[i].pre, trace[i].event)
        => /\ trace[i].result = Invalid
           /\ trace[i].calls = <<>>
           /\ trace[i].post = trace[i].pre

\* C5 witness: an Initialize delivered in WaitingForMessage3 and, later, a
\* ReceivedMessage delivered in Done were both rejected.
C5_Witness ==
    \E i, j \in Calls :
        /\ i < j
        /\ trace[i].pre = "WaitingForMessage3" /\ trace[i].event = Initialize
        /\ trace[j].pre = "Done" /\ trace[j].event.type = "ReceivedMessage"
        /\ trace[i].result = Invalid /\ trace[j].result = Invalid

\* C6: in the terminal transition the steps run in the order decode_message3,
\* verify_identity, set_final_state: verify_identity is invoked only if
\* decode_message3 succeeded, and set_final_state only if verify_identity
\* succeeded, with the identity verify_identity returned.
C6_TerminalTransitionOrder ==
    \A i \in Calls :
        LET c == trace[i].calls
        IN  /\ ( trace[i].pre = "WaitingForMessage3"
                 /\ trace[i].event.type = "ReceivedMessage" )
               => /\ Len(c) >= 1
                  /\ c[1].op = "decode_message3"
                  /\ (c[1].ok => Len(c) >= 2)
                  /\ (Len(c) >= 2 /\ c[2].ok => Len(c) = 3)
            /\ \A k \in 1..Len(c) :
                 /\ c[k].op = "verify_identity"
                    => /\ k > 1
                       /\ c[k - 1].op = "decode_message3"
                       /\ c[k - 1].ok
                 /\ c[k].op = "set_final_state"
                    => /\ k > 1
                       /\ c[k - 1].op = "verify_identity"
                       /\ c[k - 1].ok
                       /\ c[k].id = c[k - 1].id

\* C6 witness: one message 3 was decoded and then refused by verify_identity
\* (no set_final_state), and a later one went through all three steps.
C6_Witness ==
    \E i, j \in Calls :
        /\ i < j
        /\ Ops(trace[i]) = <<"decode_message3", "verify_identity">>
        /\ trace[i].calls[1].ok /\ ~trace[i].calls[2].ok
        /\ Message3Succeeded(trace[j])

Malformed(step) ==
    /\ step.pre \in {"WaitingForMessage1", "WaitingForMessage3"}
    /\ step.event.type = "ReceivedMessage"
    /\ step.calls # <<>>
    /\ ~step.calls[1].ok
    /\ step.result.kind = "Invalid"

At(step, op) == {k \in 1..Len(step.calls) : step.calls[k].op = op}

\* The on_event calls that invoked `op`, and those in which it succeeded.
Invoked(op) == {i \in Calls : At(trace[i], op) # {}}
Succeeded(op) ==
    {i \in Calls : \E k \in At(trace[i], op) : trace[i].calls[k].ok}

C12_InitializeAtMostOnce ==
    \A i, j \in Calls :
        ( /\ i < j
          /\ trace[i].event = Initialize
          /\ ~IsErr(trace[i].result)
          /\ trace[j].event = Initialize )
        => /\ trace[j].result = Invalid
           /\ trace[j].calls = <<>>

\* The call processed message 1: decode_message1 and encode_message2 both
\* succeeded in it.
Message1Succeeded(step) ==
    /\ \E k \in At(step, "decode_message1") : step.calls[k].ok
    /\ \E k \in At(step, "encode_message2") : step.calls[k].ok

C14_PolicyRejectionAtMessage3 ==
    ( /\ Len(trace) >= 3
      /\ trace[1].pre = "Initial"
      /\ trace[1].event = Initialize
      /\ trace[2].event = ReceivedMessage("m1")
      /\ trace[3].event = ReceivedMessage("m3_bob")
      /\ "bob" \notin trust_policy
      /\ \A i \in 1..3 : \A k \in 1..Len(trace[i].calls) :
            trace[i].calls[k].ok \/ trace[i].calls[k].op = "verify_identity" )
    => /\ trace[1].result = NoAction
       /\ trace[2].result = SendMessage("m2")
       /\ trace[3].result = Err("Authorization", "verify_identity")
       /\ Ops(trace[3]) = <<"decode_message3", "verify_identity">>
       /\ trace[3].final = None

C16_EngineErrorsPropagate ==
    \A i \in Calls :
        \A k \in 1..Len(trace[i].calls) :
            ~trace[i].calls[k].ok
            => /\ k = Len(trace[i].calls)
               /\ IsErr(trace[i].result)
               /\ trace[i].result.origin = trace[i].calls[k].op
               /\ \A l \in 1..Len(trace[i].calls) :
                     l # k => trace[i].calls[l].op # trace[i].calls[k].op

\* C16 witness: three on_event calls failed in three different engine
\* operations of the message-3 transition.
C16_Witness ==
    \E a, b, c \in Calls :
        /\ Ops(trace[a]) = <<"decode_message3">>
        /\ ~trace[a].calls[1].ok
        /\ Ops(trace[b]) = <<"decode_message3", "verify_identity">>
        /\ ~trace[b].calls[2].ok
        /\ Ops(trace[c]) =
             <<"decode_message3", "verify_identity", "set_final_state">>
        /\ ~trace[c].calls[3].ok

\* The handshake state a machine holds before the k-th call of the run `tr`.
Before(tr, k) ==
    IF k = 1
    THEN [status |-> tr[1].pre, final_state |-> None]
    ELSE [status |-> tr[k - 1].post, final_state |-> tr[k - 1].final]

\* `tr` and `hs` are what a machine with trust policy `policy` records and
\* holds when the events of `tr` are delivered to it alone.
AloneRun(tr, hs, policy) ==
    /\ \A k \in 1..Len(tr) :
         \E fault \in Faults :
            LET r == on_event(Before(tr, k), tr[k].event, policy, fault)
            IN  /\ tr[k] = Step(Before(tr, k).status, tr[k].event, r)
                /\ k = Len(tr) => hs = r.hs
    /\ tr = <<>> => (hs.final_state = None /\ hs.status # "Done")
    /\ tr # <<>> => tr[1].pre # "Done"

C19_NameFindsIdentifier ==
    \A n \in Names :
        \A i \in Identifiers :
            named[n] = Some(i)
            => get_identifier_by_name(identity, n) = Ok(Some(i))

\* C20: when set_as_default(id) on a stored identity returns,
\* get_default_identifier() returns Some(id) and every other stored identity
\* is non-default, whatever identity was the default before.
C20_DefaultIsUnique ==
    ( /\ completed.op = "set_as_default"
      /\ completed.ok
      /\ completed.on_stored )
    => /\ get_default_identifier(identity) = Ok(Some(completed.identifier))
       /\ \A k \in 1..Len(identity) :
            identity[k].is_default
            => identity[k].identifier
                 = Identifier_to_sql(completed.identifier)

\* The attribute map get_attributes finds for the identifier in the table,
\* empty when it finds no entry.
AttrsIn(table, identifier) ==
    LET r == get_attributes(table, identifier)
    IN  IF r.ok /\ r.value # None
        THEN (CHOOSE entry \in r.value : TRUE).attrs
        ELSE {}

\* C21: put_attributes(id, entry) overrides previous values: when it has
\* returned Ok, get_attributes(id) returns Some(entry) whatever was stored
\* for id before, and list() holds exactly one pair for id, (id, entry).
C21_PutAttributesOverrides ==
    ( /\ attributes_returned.op = "put_attributes"
      /\ attributes_returned.ok )
    => /\ get_attributes(identity_attributes, attributes_returned.identifier)
            = Ok(attributes_returned.entry)
       /\ list(identity_attributes).ok
       /\ LET pairs == list(identity_attributes).value
          IN  /\ Cardinality({k \in 1..Len(pairs) :
                     pairs[k][1] = attributes_returned.identifier}) = 1
              /\ \A k \in 1..Len(pairs) :
                    pairs[k][1] = attributes_returned.identifier
                    => Some(pairs[k][2]) = attributes_returned.entry

\* C21 witness: put_attributes has replaced a different entry of the same
\* identifier while the other identifier has attributes too.
C21_Witness ==
    /\ attributes_returned.op = "put_attributes"
    /\ attributes_returned.ok
    /\ Len(attributes_returned.before) = 2
    /\ get_attributes(attributes_returned.before,
                      attributes_returned.identifier).value
         \notin {None, attributes_returned.entry}

\* C22: delete(id) removes all attributes of that identity: when it has
\* returned, get_attributes(id) returns None and the attributes stored for
\* every other identifier are what they were.
C22_DeleteRemovesOnlyThatIdentity ==
    attributes_returned.op = "delete"
    => /\ attributes_returned.ok
       /\ get_attributes(identity_attributes, attributes_returned.identifier)
            = Ok(None)
       /\ \A i \in Identifiers \ {attributes_returned.identifier} :
            get_attributes(identity_attributes, i)
              = get_attributes(attributes_returned.before, i)

\* C22 witness: delete has removed the attributes of one identifier while
\* the other identifier has attributes.
C22_Witness ==
    /\ attributes_returned.op = "delete"
    /\ Len(attributes_returned.before) = 2
    /\ Len(identity_attributes) = 1

\* C23: put_attribute_value(subject, name, value) adds or updates that one
\* pair and keeps every other pair stored for the subject, and the entry it
\* leaves is self-attested, after any number of such calls.
C23_PutAttributeValueKeepsOthers ==
    ( /\ attributes_returned.op = "put_attribute_value"
      /\ attributes_returned.ok )
    => LET subject == attributes_returned.identifier
           r == get_attributes(identity_attributes, subject)
       IN  /\ r.ok
           /\ r.value # None
           /\ \A entry \in r.value :
                /\ entry.attrs =
                     insert(AttrsIn(attributes_returned.before, subject),
                            attributes_returned.attribute_name,
                            attributes_returned.attribute_value)
                /\ entry.attested_by = Some(subject)

\* C24: get_named_identities() returns exactly the stored identities that
\* have a name: an identity that name_identity has just named appears in the
\* result, and every identity in the result has a row with a name.
C24_NamedIdentitiesListed ==
    /\ get_named_identities(identity).ok
    /\ LET result == get_named_identities(identity).value
       IN  /\ ( /\ completed.op = "name_identity"
                /\ completed.ok
                /\ completed.on_stored )
              => \E k \in 1..Len(result) :
                    /\ result[k].identifier = completed.identifier
                    /\ result[k].name = completed.name
           /\ \A k \in 1..Len(result) :
                \E j \in 1..Len(identity) :
                   /\ identity[j].identifier
                        = Identifier_to_sql(result[k].identifier)
                   /\ identity[j].name # None

\* C25: after set_policy(r, a, e), get_policy(r, a) returns Some expression
\* equal to e; for a (resource, action) pair that was never set, or was
\* deleted, it returns None.
C25_PolicyIsReturned ==
    /\ policy_returned.op = "set_policy"
       => get_policy(policy_table, policy_returned.resource,
                     policy_returned.action)
            = Ok(policy_returned.expression)
    /\ \A r \in Resources, a \in Actions :
         get_policy(policy_table, r, a) = Ok(policy_set[r, a])

\* C25 witness: set_policy has replaced a different expression of the same
\* pair while the table holds the policy of another pair.
C25_Witness ==
    /\ policy_returned.op = "set_policy"
    /\ get_policy(policy_returned.before, policy_returned.resource,
                  policy_returned.action).value
         \notin {None, policy_returned.expression}
    /\ Len(policy_table) = 2

\* C26: after any sequence of set_policy and delete_policy calls,
\* get_policies_by_resource(r) returns exactly one (action, expression) entry
\* for each action set for r and not deleted since: setting the same pair
\* again adds no entry, and delete_policy(r, a) removes the entry of (r, a)
\* only.
C26_PoliciesByResource ==
    \A r \in Resources :
        /\ get_policies_by_resource(policy_table, r).ok
        /\ LET entries == get_policies_by_resource(policy_table, r).value
           IN  /\ \A a \in Actions :
                    Cardinality({k \in 1..Len(entries) : entries[k][1] = a})
                      = IF policy_set[r, a] = None THEN 0 ELSE 1
               /\ \A k \in 1..Len(entries) :
                    Some(entries[k][2]) = policy_set[r, entries[k][1]]

\* C26 witness: delete_policy has removed one of the two entries of a
\* resource while the other resource keeps its two entries.
C26_Witness ==
    /\ policy_returned.op = "delete_policy"
    /\ Len(get_policies_by_resource(policy_returned.before,
                                    policy_returned.resource).value) = 2
    /\ Len(get_policies_by_resource(policy_table,
                                    policy_returned.resource).value) = 1
    /\ \E r \in Resources \ {policy_returned.resource} :
         Len(get_policies_by_resource(policy_table, r).value) = 2

\* The identifiers of the stored identities, and of those marked default.
StoredIdentifiers ==
    {Identifier_from_str(identity[k].identifier).value :
        k \in 1..Len(identity)}
DefaultIdentifiers ==
    {Identifier_from_str(identity[k].identifier).value :
        k \in {j \in 1..Len(identity) : identity[j].is_default}}

\* The identifiers in the result of a query of the enrollments repository.
IdentifiersOf(result) ==
    {result.value[k].identifier : k \in 1..Len(result.value)}

\* get_enrolled_identities() returns exactly the stored identities for which
\* enroll_identity was called, each once.
EnrolledIdentitiesListed ==
    \A now \in Clock :
        LET result == get_enrolled_identities(identity, identity_enrollment, now)
        IN  /\ result.ok
            /\ IdentifiersOf(result) = StoredIdentifiers \cap enrolled
            /\ Len(result.value) = Cardinality(StoredIdentifiers \cap enrolled)
            /\ \A k \in 1..Len(result.value) : result.value[k].enrolled_at # None

\* get_all_identities_enrollments() returns every stored identity, enrolled
\* or not, each once.
AllIdentitiesListed ==
    \A now \in Clock :
        LET result ==
                get_all_identities_enrollments(identity, identity_enrollment, now)
        IN  /\ result.ok
            /\ IdentifiersOf(result) = StoredIdentifiers
            /\ Len(result.value) = Len(identity)
            /\ \A k \in 1..Len(result.value) :
                 (result.value[k].enrolled_at # None)
                   <=> (result.value[k].identifier \in enrolled)

\* is_default_identity_enrolled() is true exactly when the identity marked
\* default has been enrolled. While set_as_default is between its two
\* statements, the identity it is called for and the one it replaces are
\* both marked, and the result is true exactly when one of them has been
\* enrolled.
DefaultIdentityEnrolled ==
    LET result == is_default_identity_enrolled(identity, identity_enrollment)
    IN  /\ result.ok
        /\ result.value <=> (DefaultIdentifiers \cap enrolled # {})
        /\ in_flight = {} =>
              /\ Cardinality(DefaultIdentifiers) <= 1
              /\ \A d \in DefaultIdentifiers : result.value <=> (d \in enrolled)

C28_PutAttributeValueReturnsOk ==
    \A t \in Threads :
        (sqlite_calls[t].op = "put_attribute_value")
          ~> (sqlite_calls[t].at = "idle" /\ sqlite_calls[t].returned = "Ok")

\* C29: AppState::create_relay tries to create a relay until it succeeds: it
\* returns only once a relay named RELAY_NAME exists on the node (found or
\* newly created), and as long as no relay exists it keeps retrying instead
\* of returning.
C29_ReturnsOnlyWithRelay ==
    create_relay_at = "returned" => RELAY_NAME \in relays

\* The change history `later` is an extension of the change history
\* `earlier`: it holds the changes of `earlier`, in their order, and then
\* possibly more.
Extends(later, earlier) ==
    /\ Len(earlier) <= Len(later)
    /\ SubSeq(later, 1, Len(earlier)) = earlier

\* C30: for every identifier, the change history held by the identities
\* repository only ever grows: update_identity replaces the stored change
\* history only with one that is a valid extension (superset) of the history
\* previously stored for that identifier, and a non-extending history is
\* rejected with the stored one left unchanged.
C30_ChangeHistoryOnlyGrows ==
    [][\A k \in 1..Len(identity), j \in 1..Len(identity') :
          identity[k].identifier = identity'[j].identifier
            => Extends(IdentityRow_change_history(identity'[j]).value,
                       IdentityRow_change_history(identity[k]).value)]_vars

====
